---- MODULE Spec2Model ----
(***************************************************************************)
(* The binary record-stream parser of gt3x_parser.py (GT3XParser) and the  *)
(* data-quality report GT3XReader derives from a parse.                    *)
(*                                                                         *)
(* A buffer (log.bin) is a sequence of bytes.  Python sequences are        *)
(* 0-based and TLA+ sequences are 1-based: byte i of a Python buffer d is  *)
(* d[i + 1] here, and PySlice(d, a, b) is d[a:b].                          *)
(***************************************************************************)
EXTENDS Integers, Sequences, FiniteSets, TLC

(***************************************************************************)
(* Bounds of the model.                                                    *)
(***************************************************************************)
\* records of a stream, not counting a truncated trailing record
MaxRecords == 2
\* samples encoded into one payload
MaxSamples == 3
\* length of a payload that holds no whole sample (not a multiple of 3)
MaxRawLen == 7
\* lines of an info.txt
MaxInfoLines == 2

(***************************************************************************)
(* Python primitives.                                                      *)
(***************************************************************************)
Min(a, b) == IF a <= b THEN a ELSE b

\* d[a:b] with 0 <= a: clipped to the buffer, never an error
PySlice(d, a, b) == SubSeq(d, a + 1, Min(b, Len(d)))

\* d[i] raises IndexError unless 0 <= i < len(d)
PyIndexOK(d, i) == i >= 0 /\ i < Len(d)

RECURSIVE XorBits(_, _)
\* a ^ b on non-negative integers, bit by bit
XorBits(a, b) ==
    IF a = 0 THEN b
    ELSE IF b = 0 THEN a
    ELSE (((a % 2) + (b % 2)) % 2) + 2 * XorBits(a \div 2, b \div 2)

\* a ^ b of every two bytes
XorTable == [a \in 0..255 |-> [b \in 0..255 |-> XorBits(a, b)]]

\* a ^ b on bytes
Xor(a, b) == XorTable[a][b]

RECURSIVE UnpackUnsignedLE(_)
\* struct.unpack('<H' / '<I'): little-endian unsigned value of the bytes
UnpackUnsignedLE(b) ==
    IF b = <<>> THEN 0 ELSE Head(b) + 256 * UnpackUnsignedLE(Tail(b))

\* struct.unpack('<h'): little-endian signed 16-bit value of two bytes
UnpackSigned16(b) ==
    LET raw == UnpackUnsignedLE(b)
    IN  IF raw >= 32768 THEN raw - 65536 ELSE raw

\* struct.unpack('<i'): little-endian signed 32-bit value of four bytes
UnpackSigned32(b) ==
    LET low == b[1] + 256 * b[2] + 65536 * b[3] + 16777216 * (b[4] % 128)
    IN  IF b[4] >= 128 THEN (low - 1073741824) - 1073741824 ELSE low

(***************************************************************************)
(* GT3XParser._verify_checksum                                             *)
(***************************************************************************)
RECURSIVE XorBytes(_, _)
\* the loop "for byte in header + payload: calculated ^= byte"
XorBytes(bytes, calculated) ==
    IF bytes = <<>> THEN calculated
    ELSE XorBytes(Tail(bytes), Xor(calculated, Head(bytes)))

\* OnesComplementByte without the complement
OnesComplementByteNoInvert(calculated) == calculated % 256

\* (~calculated) & 0xFF, with ~c = -c - 1 in two's complement
OnesComplementByte(calculated) == (-calculated - 1) % 256

VerifyChecksum(header, payload, checksum) ==
    OnesComplementByte(XorBytes(header \o payload, 0)) = checksum

(***************************************************************************)
(* GT3XParser._read_record                                                 *)
(***************************************************************************)
\* the value _read_record returns when it returns None
NoRecord ==
    [kind |-> "none", separator |-> 0, record_type |-> 0, timestamp |-> 0,
     payload_size |-> 0, payload |-> <<>>, checksum |-> 0,
     header |-> <<>>, verified |-> TRUE]

\* an IndexError or struct.error raised inside _read_record
RecordError == [NoRecord EXCEPT !.kind = "raise"]

\* HeaderMissing that asks for one byte of the header only
HeaderMissingOneByte(data, offset) == offset >= Len(data)

\* HeaderMissing that also gives up where the separator is not 0x1E
HeaderMissingOrNoSeparator(data, offset) ==
    offset + 8 >= Len(data) \/ data[offset + 1] # 30

\* HeaderMissing with the header one byte longer
HeaderMissingNine(data, offset) == offset + 9 >= Len(data)

\* "if offset + 8 >= len(data): return None"
HeaderMissing(data, offset) == offset + 8 >= Len(data)

\* RecordIncomplete without the checksum byte counted
RecordIncompleteNoChecksum(data, offset, payload_size) ==
    offset + 8 + payload_size > Len(data)

\* "if offset + 8 + payload_size + 1 > len(data): return None"
RecordIncomplete(data, offset, payload_size) ==
    offset + 8 + payload_size + 1 > Len(data)

ReadRecord(data, offset) ==
    IF HeaderMissing(data, offset) THEN NoRecord
    ELSE IF ~PyIndexOK(data, offset) \/ ~PyIndexOK(data, offset + 1)
            \/ Len(PySlice(data, offset + 2, offset + 6)) # 4
            \/ Len(PySlice(data, offset + 6, offset + 8)) # 2
         THEN RecordError
    ELSE
        LET separator == data[offset + 1]
            record_type == data[offset + 2]
            timestamp == UnpackUnsignedLE(PySlice(data, offset + 2, offset + 6))
            payload_size == UnpackUnsignedLE(PySlice(data, offset + 6, offset + 8))
        IN  IF RecordIncomplete(data, offset, payload_size) THEN NoRecord
            ELSE IF ~PyIndexOK(data, offset + 8 + payload_size) THEN RecordError
            ELSE
                LET payload == PySlice(data, offset + 8, offset + 8 + payload_size)
                    checksum == data[offset + 8 + payload_size + 1]
                    header == PySlice(data, offset, offset + 8)
                IN  [kind |-> "record", separator |-> separator,
                     record_type |-> record_type, timestamp |-> timestamp,
                     payload_size |-> payload_size, payload |-> payload,
                     checksum |-> checksum, header |-> header,
                     verified |-> VerifyChecksum(header, payload, checksum)]

(***************************************************************************)
(* GT3XParser._parse_activity_payload and the three sample decoders        *)
(***************************************************************************)
ActivitySample(x, y, z) == [x |-> x, y |-> y, z |-> z]

\* ToSigned24 with the bound 0x800000 itself left positive
ToSigned24Strict(v) == IF v > 8388608 THEN v - 16777216 ELSE v

\* "if x >= 0x800000: x -= 0x1000000"
ToSigned24(v) == IF v >= 8388608 THEN v - 16777216 ELSE v

\* struct.unpack('<i', payload[a:a+3] + b'\x00'), then the 24-bit conversion
Axis24(payload, a) ==
    ToSigned24(UnpackSigned32(PySlice(payload, a, a + 3) \o <<0>>))

RECURSIVE Parse9ByteSamples(_, _, _)
\* the loop "for i in range(0, len(payload), 9)" from i on
Parse9ByteSamples(payload, i, samples) ==
    IF i >= Len(payload) THEN samples
    ELSE Parse9ByteSamples(payload, i + 9,
            IF i + 9 <= Len(payload)
            THEN Append(samples, ActivitySample(Axis24(payload, i),
                                                Axis24(payload, i + 3),
                                                Axis24(payload, i + 6)))
            ELSE samples)

RECURSIVE Parse6ByteSamples(_, _, _)
\* the loop "for i in range(0, len(payload), 6)" from i on
Parse6ByteSamples(payload, i, samples) ==
    IF i >= Len(payload) THEN samples
    ELSE Parse6ByteSamples(payload, i + 6,
            IF i + 6 <= Len(payload)
            THEN Append(samples,
                    ActivitySample(UnpackSigned16(PySlice(payload, i, i + 2)),
                                   UnpackSigned16(PySlice(payload, i + 2, i + 4)),
                                   UnpackSigned16(PySlice(payload, i + 4, i + 6))))
            ELSE samples)

\* Parse3ByteSamples with each byte read as a signed value
Parse3ByteSamplesSigned(payload, i, samples) ==
    samples \o [k \in 1..((Len(payload) - i) \div 3) |->
                    ActivitySample(payload[i + 3 * k - 2] - (IF payload[i + 3 * k - 2] >= 128 THEN 256 ELSE 0),
                                   payload[i + 3 * k - 1] - (IF payload[i + 3 * k - 1] >= 128 THEN 256 ELSE 0),
                                   payload[i + 3 * k] - (IF payload[i + 3 * k] >= 128 THEN 256 ELSE 0))]

RECURSIVE Parse3ByteSamples(_, _, _)
\* the loop "for i in range(0, len(payload), 3)" from i on
Parse3ByteSamples(payload, i, samples) ==
    IF i >= Len(payload) THEN samples
    ELSE Parse3ByteSamples(payload, i + 3,
            IF i + 3 <= Len(payload)
            THEN Append(samples, ActivitySample(payload[i + 1], payload[i + 2],
                                                payload[i + 3]))
            ELSE samples)

\* a line printed to standard output
Printed(msg, arg) == [msg |-> msg, arg |-> arg]

\* SelectFormat with the 6-byte test made before the 9-byte test
SelectFormatSixFirst(len) ==
    IF len % 6 = 0 THEN 6
    ELSE IF len % 9 = 0 THEN 9
    ELSE IF len % 3 = 0 THEN 3
    ELSE 0

\* SelectFormat with the 3-byte decoder as the fallback for every length
SelectFormatNoUnknown(len) ==
    IF len % 9 = 0 THEN 9
    ELSE IF len % 6 = 0 THEN 6
    ELSE 3

\* the if/elif chain on len(payload): the sample width chosen, 0 for none
SelectFormat(len) ==
    IF len % 9 = 0 THEN 9
    ELSE IF len % 6 = 0 THEN 6
    ELSE IF len % 3 = 0 THEN 3
    ELSE 0

\* the samples returned and the lines printed
ParseActivityPayload(payload) ==
    LET format == SelectFormat(Len(payload))
    IN  IF format = 9
        THEN [samples |-> Parse9ByteSamples(payload, 0, <<>>), out |-> <<>>]
        ELSE IF format = 6
        THEN [samples |-> Parse6ByteSamples(payload, 0, <<>>), out |-> <<>>]
        ELSE IF format = 3
        THEN [samples |-> Parse3ByteSamples(payload, 0, <<>>), out |-> <<>>]
        ELSE [samples |-> <<>>,
              out |-> <<Printed("unknown_payload_format", Len(payload))>>]

(***************************************************************************)
(* GT3XParser._parse_log_bin: the body of the try block for one record     *)
(***************************************************************************)
\* ExtendSamples with the new samples put in front
ExtendSamplesFront(samples, activity_samples) == activity_samples \o samples

\* "samples.extend(activity_samples)"
ExtendSamples(samples, activity_samples) == samples \o activity_samples

\* IsActivityType that knows type 0 only
IsActivityTypeZeroOnly(record_type) == record_type = 0

\* IsActivityType with the test on the type left out
IsActivityTypeAny(record_type) == TRUE

\* "record.record_type == 0 or record.record_type == 26"
IsActivityType(record_type) == record_type = 0 \/ record_type = 26

\* NextOffset one byte too far
NextOffsetPastEnd(offset, payload_size) == offset + 8 + payload_size + 2

\* NextOffset without the header and the checksum byte
NextOffsetPayloadOnly(offset, payload_size) == offset + payload_size

\* "offset += 8 + record.payload_size + 1"
NextOffset(offset, payload_size) == offset + 8 + payload_size + 1

\* What one pass through the try block does at `offset`.  `stage` names the
\* call in which the runtime raises an exception of its own (MemoryError on
\* an allocation, OSError from print): "frame" inside _read_record, "decode"
\* inside _parse_activity_payload, "none" when it raises nothing.
\*   kind: "break" (record is None), "advance", or "raise" (except branch)
TryBody(d, off, stage) ==
    LET record == IF stage = "frame" THEN RecordError ELSE ReadRecord(d, off)
        failed == IF record.kind = "record" /\ ~record.verified
                  THEN <<Printed("checksum_failed", off)>> ELSE <<>>
        activity == record.kind = "record" /\ IsActivityType(record.record_type)
        parsed == IF activity /\ stage # "decode"
                  THEN ParseActivityPayload(record.payload)
                  ELSE [samples |-> <<>>, out |-> <<>>]
        kind == IF record.kind = "raise" \/ (activity /\ stage = "decode")
                THEN "raise"
                ELSE IF record.kind = "none" THEN "break" ELSE "advance"
    IN  [kind |-> kind, record |-> record,
         decoded |-> kind = "advance" /\ activity,
         produced |-> parsed.samples,
         out |-> failed \o parsed.out,
         next |-> IF kind = "advance"
                  THEN NextOffset(off, record.payload_size) ELSE off]

\* "print(f"Error parsing record at offset {offset}: {e}")"
ErrorLine(off) == Printed("error_parsing_record", off)

RECURSIVE ParseLogBinFrom(_, _, _, _)
\* _parse_log_bin run to its return from `off` on, with nothing raised by
\* the runtime: the samples returned, the lines printed, the last offset
ParseLogBinFrom(d, off, smp, out) ==
    IF ~(off < Len(d)) THEN [samples |-> smp, out |-> out, offset |-> off,
                             raised |-> FALSE]
    ELSE LET t == TryBody(d, off, "none")
         IN  IF t.kind = "break"
             THEN [samples |-> smp, out |-> out \o t.out, offset |-> off,
                   raised |-> FALSE]
             ELSE IF t.kind = "raise"
             THEN [samples |-> smp, out |-> (out \o t.out) \o <<ErrorLine(off)>>,
                   offset |-> off, raised |-> TRUE]
             ELSE ParseLogBinFrom(d, t.next, ExtendSamples(smp, t.produced),
                                  out \o t.out)

ParseLogBin(d) == ParseLogBinFrom(d, 0, <<>>, <<>>)

(***************************************************************************)
(* GT3XReader._extract_metadata: the data-quality report                   *)
(***************************************************************************)
\* DataQuality(checksum_failures=0, unknown_record_types=[], parsing_errors=0)
DataQuality(parsed_samples) ==
    [checksum_failures |-> 0, unknown_record_types |-> <<>>,
     parsing_errors |-> 0]

(***************************************************************************)
(* The encoder of examples/test_parser.py (create_mock_gt3x_file): a       *)
(* header packed with struct.pack('<BBIH', ...), the payload, and the      *)
(* checksum byte.                                                          *)
(***************************************************************************)
\* "separator = 0x1E"
MockSeparator == 30
\* "timestamp = 1704110400"
MockTimestamp == 1704110400

RECURSIVE PackLE(_, _)
\* the n little-endian bytes of the non-negative value v
PackLE(v, n) == IF n = 0 THEN <<>> ELSE <<v % 256>> \o PackLE(v \div 256, n - 1)

\* struct.pack('<BBIH', separator, record_type, timestamp, payload_size)
PackHeader(separator, record_type, timestamp, payload_size) ==
    <<separator, record_type>> \o PackLE(timestamp, 4) \o PackLE(payload_size, 2)

RECURSIVE MockXor(_, _)
\* "for byte in header + payload: checksum ^= byte"
MockXor(bytes, checksum) ==
    IF bytes = <<>> THEN checksum
    ELSE MockXor(Tail(bytes), Xor(checksum, Head(bytes)))

\* "checksum = (~checksum) & 0xFF"
MockChecksum(bytes) == (-MockXor(bytes, 0) - 1) % 256

\* header, payload and checksum of one record, as log_data is extended
EncodeRecord(separator, record_type, timestamp, payload) ==
    LET header == PackHeader(separator, record_type, timestamp, Len(payload))
    IN  (header \o payload) \o <<MockChecksum(header \o payload)>>

(***************************************************************************)
(* The synthetic sample encoder: a sample written at 9, 6 or 3 bytes, each *)
(* axis little-endian two's complement at a third of the width.            *)
(***************************************************************************)
RECURSIVE Pow256(_)
Pow256(n) == IF n = 0 THEN 1 ELSE 256 * Pow256(n - 1)

EncodeAxis(v, nbytes) == PackLE(v % Pow256(nbytes), nbytes)

EncodeSample(s, width) ==
    (EncodeAxis(s.x, width \div 3) \o EncodeAxis(s.y, width \div 3))
        \o EncodeAxis(s.z, width \div 3)

RECURSIVE EncodeSamples(_, _)
EncodeSamples(smp, width) ==
    IF smp = <<>> THEN <<>>
    ELSE EncodeSample(Head(smp), width) \o EncodeSamples(Tail(smp), width)

(***************************************************************************)
(* The inputs: which records a buffer is built from.                       *)
(***************************************************************************)
\* the two activity-bearing types and one type the parser skips
RecordTypes == {0, 26, 5}

Widths == {9, 6, 3}

\* sample values within each width's range; the 3-byte ones are the mock
\* payload of the test, in its order
SamplePool(width) ==
    IF width = 9
    THEN << ActivitySample(2934884, -1, 100),
            ActivitySample(-8388608, 8388607, 0),
            ActivitySample(-200, 3000677, -3066470),
            ActivitySample(1, 65536, -65536) >>
    ELSE IF width = 6
    THEN << ActivitySample(100, -200, 300),
            ActivitySample(-32768, 32767, -1),
            ActivitySample(513, 0, -256),
            ActivitySample(1, 255, 256) >>
    ELSE << ActivitySample(100, 200, 44),
            ActivitySample(101, 201, 45),
            ActivitySample(102, 202, 46),
            ActivitySample(255, 0, 128) >>

\* n samples of the pool, from its entry `start` on (0-based, cyclic)
SamplesFor(width, n, start) ==
    [i \in 1..n |->
        SamplePool(width)[((start + i - 1) % Len(SamplePool(width))) + 1]]

\* bytes of a payload that is not made of samples
RawPool == <<100, 200, 44, 255, 0, 128, 127, 1>>

RawBytes(len) == [i \in 1..len |-> RawPool[((i - 1) % Len(RawPool)) + 1]]

\* a record whose payload encodes n samples at `width` bytes each
EncodedInput(record_type, width, n, start) ==
    [record_type |-> record_type, width |-> width,
     samples |-> SamplesFor(width, n, start),
     payload |-> EncodeSamples(SamplesFor(width, n, start), width)]

\* a record whose payload is `len` bytes that are no whole number of samples
RawInput(record_type, len) ==
    [record_type |-> record_type, width |-> 0, samples |-> <<>>,
     payload |-> RawBytes(len)]

\* every record a one-record buffer is built from
RichInputs ==
    {EncodedInput(t, w, n, s) : t \in RecordTypes, w \in Widths,
                                n \in 0..MaxSamples, s \in 0..1}
    \cup {RawInput(t, len) : t \in RecordTypes,
                             len \in {l \in 1..MaxRawLen : l % 3 # 0}}

\* every record the i-th place of a longer stream is built from
StreamInputs(i) ==
    {EncodedInput(0, 9, 1, i), EncodedInput(26, 6, 1, i),
     EncodedInput(0, 3, 1, i), EncodedInput(5, 9, 1, i),
     RawInput(26, 1), RawInput(5, 1)}

\* What is done to the encoded stream:
\*   "plain"   nothing;
\*   "header"  every record carries another separator and timestamp;
\*   "corrupt" one byte (`part`) of record `idx` is changed after encoding;
\*   "tail"    a further record follows, cut to its first `cut` bytes;
\*   "fault"   the runtime raises in `stage` while record `idx` is handled.
Scenario(kind, idx, part, cut, stage) ==
    [kind |-> kind, idx |-> idx, part |-> part, cut |-> cut, stage |-> stage]

Plain == Scenario("plain", 0, "none", 0, "none")

Parts == {"separator", "timestamp", "payload", "checksum"}

\* the record that is cut short at the end of a "tail" buffer
TailRecord ==
    EncodeRecord(MockSeparator, 0, MockTimestamp,
                 EncodeSamples(SamplesFor(9, 1, 0), 9))

Scenarios(rs, cuts) ==
    {Plain, Scenario("header", 0, "none", 0, "none")}
    \cup {Scenario("corrupt", i, p, 0, "none") :
            i \in 1..Len(rs), p \in Parts}
    \cup {Scenario("tail", 0, "none", c, "none") : c \in cuts}
    \cup {Scenario("fault", i, "none", 0, st) :
            i \in 1..Len(rs), st \in {"frame", "decode"}}

\* the separator and timestamp the records of a scenario carry
SeparatorOf(sc) == IF sc.kind = "header" THEN 0 ELSE MockSeparator
TimestampOf(sc) == IF sc.kind = "header" THEN 0 ELSE MockTimestamp

RECURSIVE EncodeStream(_, _, _)
\* the records of rs, encoded one after the other
EncodeStream(rs, separator, timestamp) ==
    IF rs = <<>> THEN <<>>
    ELSE EncodeRecord(separator, Head(rs).record_type, timestamp, Head(rs).payload)
            \o EncodeStream(Tail(rs), separator, timestamp)

\* the offset at which record i of rs starts in the encoded stream
RecordStart(rs, i) == Len(EncodeStream(SubSeq(rs, 1, i - 1), 0, 0))

\* the offset of the byte a "corrupt" scenario changes
CorruptOffset(rs, sc) ==
    RecordStart(rs, sc.idx)
        + (IF sc.part = "separator" THEN 0
           ELSE IF sc.part = "timestamp" THEN 2
           ELSE IF sc.part = "payload" THEN 8
           ELSE 8 + Len(rs[sc.idx].payload))

\* the buffer of a scenario
BuildData(rs, sc) ==
    LET clean == EncodeStream(rs, SeparatorOf(sc), TimestampOf(sc))
    IN  IF sc.kind = "corrupt"
        THEN [clean EXCEPT ![CorruptOffset(rs, sc) + 1] = Xor(@, 1)]
        ELSE IF sc.kind = "tail"
        THEN clean \o SubSeq(TailRecord, 1, sc.cut)
        ELSE clean

\* a "corrupt" scenario changes a byte that exists
ScenarioFits(rs, sc) ==
    sc.kind = "corrupt" /\ sc.part = "payload" => rs[sc.idx].payload # <<>>

(***************************************************************************)
(* GT3XParser._parse_info_txt.  A string is a sequence of one-character    *)
(* strings; info is a function from keys to values.                        *)
(***************************************************************************)
\* the characters str.strip() removes
Whitespace == {" ", "\n", "\t"}

RECURSIVE StripLeft(_)
StripLeft(str) ==
    IF str # <<>> /\ Head(str) \in Whitespace THEN StripLeft(Tail(str)) ELSE str

RECURSIVE StripRight(_)
StripRight(str) ==
    IF str # <<>> /\ str[Len(str)] \in Whitespace
    THEN StripRight(SubSeq(str, 1, Len(str) - 1)) ELSE str

\* str.strip()
Strip(str) == StripRight(StripLeft(str))

\* "sep in str"
Contains(str, sep) == \E i \in DOMAIN str : str[i] = sep

\* the place of the first sep in str, which holds one
FirstIndex(str, sep) ==
    CHOOSE i \in DOMAIN str :
        str[i] = sep /\ \A j \in 1..(i - 1) : str[j] # sep

\* the place of the last sep in str, which holds one
LastIndex(str, sep) ==
    CHOOSE i \in DOMAIN str :
        str[i] = sep /\ \A j \in (i + 1)..Len(str) : str[j] # sep

\* SplitOnce cutting at the last sep, as str.rsplit(sep, 1) does
SplitOnceLast(str, sep) ==
    <<SubSeq(str, 1, LastIndex(str, sep) - 1),
      SubSeq(str, LastIndex(str, sep) + 1, Len(str))>>

\* str.split(sep, 1), for a str that holds sep
SplitOnce(str, sep) ==
    <<SubSeq(str, 1, FirstIndex(str, sep) - 1),
      SubSeq(str, FirstIndex(str, sep) + 1, Len(str))>>

RECURSIVE Split(_, _)
\* str.split(sep)
Split(str, sep) ==
    IF ~Contains(str, sep) THEN <<str>>
    ELSE <<SplitOnce(str, sep)[1]>> \o Split(SplitOnce(str, sep)[2], sep)

\* "info = {}"
EmptyInfo == [key \in {} |-> <<>>]

\* "info[key.strip()] = value.strip()"
SetItem(info_, key, value) ==
    [k \in DOMAIN info_ \cup {key} |-> IF k = key THEN value ELSE info_[k]]

RECURSIVE ParseInfoLines(_, _)
\* the loop "for line in content.strip().split('\n')" over the lines left
ParseInfoLines(lines, info_) ==
    IF lines = <<>> THEN info_
    ELSE ParseInfoLines(Tail(lines),
            IF Contains(Head(lines), ":")
            THEN SetItem(info_, Strip(SplitOnce(Head(lines), ":")[1]),
                                Strip(SplitOnce(Head(lines), ":")[2]))
            ELSE info_)

ParseInfoTxt(content) == ParseInfoLines(Split(Strip(content), "\n"), EmptyInfo)

(***************************************************************************)
(* The inputs: the text of info.txt, line by line.  Each line carries the  *)
(* key and the value it is written to hold.                                *)
(***************************************************************************)
InfoLine(text, colon, key, value) ==
    [text |-> text, colon |-> colon, key |-> key, value |-> value]

InfoLines ==
    { InfoLine(<<"k", ":", "v">>, TRUE, <<"k">>, <<"v">>),
      InfoLine(<<" ", "k", " ", ":", " ", "v", " ">>, TRUE, <<"k">>, <<"v">>),
      InfoLine(<<"t", ":", "1", ":", "2">>, TRUE, <<"t">>, <<"1", ":", "2">>),
      InfoLine(<<"k", ":", "w", " ", "x">>, TRUE, <<"k">>, <<"w", " ", "x">>),
      InfoLine(<<"k", ":">>, TRUE, <<"k">>, <<>>),
      InfoLine(<<":", "v">>, TRUE, <<>>, <<"v">>),
      InfoLine(<<"k", "v">>, FALSE, <<>>, <<>>),
      InfoLine(<<>>, FALSE, <<>>, <<>>) }

RECURSIVE JoinLines(_)
\* the lines, each followed by a newline as in the test's info_content
JoinLines(lines) ==
    IF lines = <<>> THEN <<>>
    ELSE (Head(lines).text \o <<"\n">>) \o JoinLines(Tail(lines))

\* the info.txt of the buffers whose log.bin is what varies
DefaultInfoLines == <<InfoLine(<<"k", ":", "v">>, TRUE, <<"k">>, <<"v">>)>>

(***************************************************************************)
(* GT3XReader: the cached fields and the calls that fill them.  A field    *)
(* that is None is the empty sequence, a field that is set holds its value.*)
(***************************************************************************)
None == <<>>

Some(v) == <<v>>

\* the keys _extract_metadata passes to float()
SampleRateKey == <<"S", "a", "m", "p", "l", "e", " ", "R", "a", "t", "e">>

AccelerationScaleKey == <<"A", "c", "c", "e", "l", "e", "r", "a", "t", "i", "o", "n", " ", "S", "c", "a", "l", "e">>

\* info.get(key, default)
Get(info_, key, default) == IF key \in DOMAIN info_ THEN info_[key] ELSE default

Digits == {"0", "1", "2", "3", "4", "5", "6", "7", "8", "9"}

\* float(str) returns for a decimal numeral: digits with at most one point
\* and one digit or more; on the other texts of the inputs it raises
\* ValueError
FloatOK(str) ==
    /\ \A i \in DOMAIN str : str[i] \in Digits \cup {"."}
    /\ \E i \in DOMAIN str : str[i] \in Digits
    /\ \A i, j \in DOMAIN str : (str[i] = "." /\ str[j] = ".") => i = j

\* GT3XReader.__init__: nothing parsed, nothing cached, no call made yet
NewReader ==
    [_data |-> None, _device_info |-> None, _recording_info |-> None,
     _data_quality |-> None, parse_calls |-> 0, calls |-> 0,
     last |-> [call |-> "__init__", result |-> "value"]]

\* GT3XParser.parse() on a readable archive: "return {'info': ...,
\* 'activity_samples': ...}"
Parse(content, log_data) ==
    [info |-> ParseInfoTxt(content),
     activity_samples |-> ParseLogBin(log_data).samples]

\* GT3XReader._extract_metadata on a reader whose _data is set: float() of
\* the sample rate or of the acceleration scale raises before DeviceInfo is
\* built, and then nothing is assigned
ExtractMetadataOn(r) ==
    LET info_ == r._data[1].info
        samples_ == r._data[1].activity_samples
        sample_rate == Get(info_, SampleRateKey, <<"3", "0">>)
        acceleration_scale == Get(info_, AccelerationScaleKey, <<"2", "5", "6", ".", "0">>)
    IN  IF ~FloatOK(sample_rate) \/ ~FloatOK(acceleration_scale)
        THEN [reader |-> r, raised |-> TRUE]
        ELSE [reader |->
                [r EXCEPT !._device_info =
                                Some([sample_rate |-> sample_rate,
                                      acceleration_scale |-> acceleration_scale]),
                          !._recording_info =
                                Some([total_samples |-> Len(samples_)]),
                          !._data_quality = Some(DataQuality(samples_))],
              raised |-> FALSE]

\* GT3XReader._parse_file: "if self._data is None: self._data =
\* self._parser.parse(); self._extract_metadata()", where parse() returns
\* `parsed`, or raises on an archive that cannot be opened and _data stays
\* None
ParseFileOn(r, parsed, readable) ==
    IF r._data # None THEN [reader |-> r, raised |-> FALSE]
    ELSE IF ~readable
    THEN [reader |-> [r EXCEPT !.parse_calls = @ + 1], raised |-> TRUE]
    ELSE ExtractMetadataOn([r EXCEPT !.parse_calls = @ + 1,
                                     !._data = Some(parsed)])

\* the properties device_info, recording_info, data_quality: "if
\* self._<field> is None: self._parse_file()", "return self._<field>"
Property(r, field, parsed, readable) ==
    IF r[field] # None
    THEN [reader |-> r, raised |-> FALSE, value |-> r[field]]
    ELSE LET p == ParseFileOn(r, parsed, readable)
         IN  [reader |-> p.reader, raised |-> p.raised,
              value |-> p.reader[field]]

\* what a call hands back: "raise" the exception of parse() or of
\* _extract_metadata, "attribute_error" an attribute read on None, "none"
\* the value None, "value" anything else
ResultOf(raised_, value) ==
    IF raised_ THEN "raise" ELSE IF value = None THEN "none" ELSE "value"

(***************************************************************************)
(* The state.                                                              *)
(***************************************************************************)
VARIABLES
    info_lines,       \* input: the lines info.txt was written from
    info_content,     \* the text of info.txt
    recs,             \* input: the records the buffer was encoded from
    scenario,         \* input: what was done to the encoded stream
    data,             \* log_data, the bytes handed to _parse_log_bin
    reader,           \* the fields of the GT3XReader, and its last call
    pc,               \* "init", "info" (info.txt parsed), "loop" (in the
                      \* while loop), "parsed" (_parse_log_bin returned),
                      \* "ready" (metadata set)
    info,             \* GT3XParser.info
    offset,           \* _parse_log_bin's offset
    samples,          \* _parse_log_bin's samples
    stdout,           \* the lines printed so far
    history,          \* one entry per record framed, in order
    raised,           \* the except branch of _parse_log_bin was taken
    activity_samples, \* GT3XParser.activity_samples
    data_quality,     \* GT3XReader._data_quality: <<>> for None, else <<dq>>
    other             \* a second GT3XParser, parsing a buffer of its own

vars == <<info_lines, info_content, recs, scenario, data, reader, pc, info, offset,
          samples, stdout, history, raised, activity_samples, data_quality,
          other>>

inputs == <<info_lines, info_content, recs, scenario, data>>

\* the state after GT3XParser.__init__ and GT3XReader.__init__, for a buffer
InitFor(rs, sc) ==
    /\ reader = NewReader
    /\ info = EmptyInfo
    /\ recs = rs
    /\ scenario = sc
    /\ data = BuildData(rs, sc)
    /\ pc = "init"
    /\ offset = 0
    /\ samples = <<>>
    /\ stdout = <<>>
    /\ history = <<>>
    /\ raised = FALSE
    /\ activity_samples = <<>>
    /\ data_quality = <<>>

\* buffers of at most one record, of every payload
InitRecord ==
    \E rs \in {<<>>} \cup {<<r>> : r \in RichInputs} :
        \E sc \in Scenarios(rs, 1..(Len(TailRecord) - 1)) :
            ScenarioFits(rs, sc) /\ InitFor(rs, sc)

\* the places of a truncated trailing record a longer stream is cut at:
\* in the header, after the header, in the payload, before the checksum
StreamCuts == {3, 8, 12, Len(TailRecord) - 1}

\* buffers of two or more records
InitStream ==
    \E k \in 2..MaxRecords :
        \E rs \in [1..k -> UNION {StreamInputs(i) : i \in 1..k}] :
            /\ \A i \in 1..k : rs[i] \in StreamInputs(i)
            /\ \E sc \in Scenarios(rs, StreamCuts) :
                    ScenarioFits(rs, sc) /\ InitFor(rs, sc)

\* the text of info.txt
InitInfoFor(lines) ==
    /\ info_lines = lines
    /\ info_content = JoinLines(lines)

\* an info.txt of every choice of lines, with an empty log.bin
InitInfoTxt ==
    \E n \in 0..MaxInfoLines :
        \E lines \in [1..n -> InfoLines] :
            InitInfoFor(lines) /\ InitFor(<<>>, Plain)

\* the second parser when there is none
NoOther ==
    [data |-> <<>>, pc |-> "none", offset |-> 0, samples |-> <<>>,
     out |-> <<>>, activity_samples |-> <<>>]

Init ==
    /\ \/ (InitRecord \/ InitStream) /\ InitInfoFor(DefaultInfoLines)
       \/ InitInfoTxt
    /\ other = NoOther

(***************************************************************************)
(* The operations.                                                         *)
(***************************************************************************)
\* the stage the runtime raises in while the current record is handled
StageNow ==
    IF scenario.kind = "fault" /\ scenario.idx = Len(history) + 1
    THEN scenario.stage ELSE "none"

\* the try block's outcome at the current offset; an iteration takes it once
Outcome == TryBody(data, offset, StageNow)

\* "return samples", and parse() storing it in self.activity_samples
ReturnSamples ==
    /\ pc' = "parsed"
    /\ activity_samples' = samples

\* parse(): "self.info = self._parse_info_txt(info_content)"
ParseInfo ==
    /\ pc = "init"
    /\ pc' = "info"
    /\ info' = ParseInfoTxt(info_content)
    /\ UNCHANGED <<inputs, reader, other, offset, samples, stdout, history, raised,
                   activity_samples, data_quality>>

\* parse() calls _parse_log_bin: "samples = []", "offset = 0"
ParseLogBinStart ==
    /\ pc = "info"
    /\ pc' = "loop"
    /\ samples' = <<>>
    /\ offset' = 0
    /\ UNCHANGED <<inputs, reader, info, other, stdout, history, raised, activity_samples,
                   data_quality>>

\* one iteration: _read_record returns None, "break", "return samples"
IterateBreak ==
    /\ pc = "loop"
    /\ offset < Len(data)
    /\ \E t \in {Outcome} :
        /\ t.kind = "break"
        /\ stdout' = stdout \o t.out
        /\ ReturnSamples
        /\ UNCHANGED <<inputs, reader, info, other, offset, samples, history, raised, data_quality>>

\* the entry of `history` for the record just framed
HistoryEntry(off, t) ==
    [offset |-> off, record |-> t.record, decoded |-> t.decoded,
     produced |-> t.produced, out |-> t.out, next |-> t.next]

\* one iteration: an activity record is framed and its payload decoded
IterateActivity ==
    /\ pc = "loop"
    /\ offset < Len(data)
    /\ \E t \in {Outcome} :
        /\ t.kind = "advance"
        /\ t.decoded
        /\ samples' = ExtendSamples(samples, t.produced)
        /\ stdout' = stdout \o t.out
        /\ offset' = t.next
        /\ history' = Append(history, HistoryEntry(offset, t))
        /\ UNCHANGED <<inputs, reader, info, other, pc, raised, activity_samples, data_quality>>

\* one iteration: a record of another type is framed and skipped
IterateSkip ==
    /\ pc = "loop"
    /\ offset < Len(data)
    /\ \E t \in {Outcome} :
        /\ t.kind = "advance"
        /\ ~t.decoded
        /\ stdout' = stdout \o t.out
        /\ offset' = t.next
        /\ history' = Append(history, HistoryEntry(offset, t))
        /\ UNCHANGED <<inputs, reader, info, other, pc, samples, raised, activity_samples, data_quality>>

\* one iteration: an exception, the except branch prints and breaks
IterateExcept ==
    /\ pc = "loop"
    /\ offset < Len(data)
    /\ \E t \in {Outcome} :
        /\ t.kind = "raise"
        /\ stdout' = (stdout \o t.out) \o <<ErrorLine(offset)>>
        /\ raised' = TRUE
        /\ ReturnSamples
        /\ UNCHANGED <<inputs, reader, info, other, offset, samples, history, data_quality>>

\* "while offset < len(data)" is false: "return samples"
LoopExit ==
    /\ pc = "loop"
    /\ ~(offset < Len(data))
    /\ ReturnSamples
    /\ UNCHANGED <<inputs, reader, info, other, offset, samples, stdout, history, raised,
                   data_quality>>

\* GT3XReader._extract_metadata, after self._parser.parse() returned
ExtractMetadata ==
    /\ pc = "parsed"
    /\ pc' = "ready"
    /\ data_quality' = <<DataQuality(activity_samples)>>
    /\ UNCHANGED <<inputs, reader, info, other, offset, samples, stdout, history, raised,
                   activity_samples>>

Next ==
    \/ ParseInfo
    \/ ParseLogBinStart
    \/ IterateBreak
    \/ IterateActivity
    \/ IterateSkip
    \/ IterateExcept
    \/ LoopExit
    \/ ExtractMetadata

Spec == Init /\ [][Next]_vars

(***************************************************************************)
(* Two parses at once: a second GT3XParser runs _parse_log_bin on a buffer *)
(* of its own, its iterations interleaved with those of the first in any   *)
(* order.  offset and samples are locals of each call.                     *)
(***************************************************************************)
\* the buffers the second parser is given
OtherBuffers ==
    { BuildData(<<>>, Plain),
      BuildData(<<EncodedInput(0, 9, 1, 2)>>, Plain),
      BuildData(<<EncodedInput(26, 6, 1, 3), RawInput(26, 1)>>, Plain),
      BuildData(<<EncodedInput(5, 9, 1, 1), EncodedInput(0, 3, 1, 0)>>,
                Scenario("corrupt", 2, "checksum", 0, "none")) }

\* what is done to the first parser's stream when two parsers run
TwoScenarios(rs) ==
    IF rs = <<>> THEN {Plain}
    ELSE {Plain, Scenario("corrupt", 1, "checksum", 0, "none"),
          Scenario("tail", 0, "none", 12, "none"),
          Scenario("fault", Len(rs), "none", 0, "decode")}

InitTwo ==
    /\ \E k \in 0..MaxRecords :
            \E rs \in [1..k -> UNION {StreamInputs(i) : i \in 1..k}] :
                /\ \A i \in 1..k : rs[i] \in StreamInputs(i)
                /\ \E sc \in TwoScenarios(rs) : InitFor(rs, sc)
    /\ InitInfoFor(DefaultInfoLines)
    /\ \E d \in OtherBuffers :
            other = [data |-> d, pc |-> "init", offset |-> 0, samples |-> <<>>,
                     out |-> <<>>, activity_samples |-> <<>>]

\* the second parser's steps leave everything of the first as it is
OtherOnly ==
    UNCHANGED <<inputs, reader, pc, info, offset, samples, stdout, history, raised,
                activity_samples, data_quality>>

\* OtherIterate with the sample list shared between the two parsers
OtherIterateShared ==
    /\ other.pc = "loop"
    /\ other.offset < Len(other.data)
    /\ LET t == TryBody(other.data, other.offset, "none")
       IN  /\ other' = [other EXCEPT !.offset = t.next, !.out = @ \o t.out,
                            !.pc = IF t.kind = "advance" THEN "loop" ELSE "parsed",
                            !.activity_samples = samples]
           /\ samples' = ExtendSamples(samples, t.produced)
    /\ UNCHANGED <<inputs, reader, pc, info, offset, stdout, history, raised,
                   activity_samples, data_quality>>

\* the second parser enters _parse_log_bin: "samples = []", "offset = 0"
OtherStart ==
    /\ other.pc = "init"
    /\ other' = [other EXCEPT !.pc = "loop", !.samples = <<>>, !.offset = 0]
    /\ OtherOnly

\* one iteration of the second parser's loop; when the record is None (or
\* an exception is caught) it breaks and returns its samples
OtherIterate ==
    /\ other.pc = "loop"
    /\ other.offset < Len(other.data)
    /\ LET t == TryBody(other.data, other.offset, "none")
       IN  other' =
            IF t.kind = "advance"
            THEN [other EXCEPT !.offset = t.next,
                               !.samples = ExtendSamples(@, t.produced),
                               !.out = @ \o t.out]
            ELSE [other EXCEPT !.pc = "parsed",
                               !.out = IF t.kind = "raise"
                                       THEN (@ \o t.out) \o <<ErrorLine(other.offset)>>
                                       ELSE @ \o t.out,
                               !.activity_samples = other.samples]
    /\ OtherOnly

\* the second parser's loop condition is false: "return samples"
OtherExit ==
    /\ other.pc = "loop"
    /\ ~(other.offset < Len(other.data))
    /\ other' = [other EXCEPT !.pc = "parsed", !.activity_samples = other.samples]
    /\ OtherOnly

NextTwo ==
    \/ Next
    \/ OtherStart
    \/ OtherIterate
    \/ OtherExit

SpecTwo == InitTwo /\ [][NextTwo]_vars

(***************************************************************************)
(* Notions the properties below share.                                     *)
(***************************************************************************)
ActivityTypes == {0, 26}

\* the stream is as the encoder wrote it: no byte changed, nothing cut off,
\* nothing raised by the runtime
AsEncoded == scenario.kind \in {"plain", "header"}

\* the encoded stream of the records rs, under the scenario's header fields
CleanStream(rs) == EncodeStream(rs, SeparatorOf(scenario), TimestampOf(scenario))

RECURSIVE ConcatSamples(_)
\* the samples the records rs were encoded from, in order
ConcatSamples(rs) ==
    IF rs = <<>> THEN <<>> ELSE Head(rs).samples \o ConcatSamples(Tail(rs))

\* the lines of `out` that report an unknown payload format
UnknownLines(out) == SelectSeq(out, LAMBDA l : l.msg = "unknown_payload_format")

\* the lines of `out` that report a failed checksum
ChecksumLines(out) == SelectSeq(out, LAMBDA l : l.msg = "checksum_failed")

\* _parse_log_bin has returned
Returned == pc \in {"parsed", "ready"}

(***************************************************************************)
(* C1                                                                      *)
(***************************************************************************)
\* the number of samples C1 states for a payload of L bytes, L a multiple of 3
C1_Count(L) ==
    IF L % 9 = 0 THEN L \div 9
    ELSE IF L % 6 = 0 THEN L \div 6
    ELSE L \div 3

AllEncodedActivity ==
    \A i \in DOMAIN recs :
        recs[i].record_type \in ActivityTypes /\ recs[i].width # 0

\* C2: round trip: when every record was encoded from samples at 9, 6 or 3
\* bytes each, with a recognized type and a correct checksum, the samples
\* _parse_log_bin returns are the encoded samples, in order.
C2_RoundTrip ==
    (pc = "parsed" /\ AsEncoded /\ AllEncodedActivity)
        => activity_samples = ConcatSamples(recs)

(***************************************************************************)
(* C3                                                                      *)
(***************************************************************************)
\* the payload the test builds: "3 samples, 3 bytes each"
MockPayload == <<100, 200, 44, 101, 201, 45, 102, 202, 46>>

\* log_data of create_mock_gt3x_file
MockLogData == EncodeRecord(MockSeparator, 0, MockTimestamp, MockPayload)

\* C3: the single type-0 record of the test, whose payload is the 9 bytes
\* 64 C8 2C 65 C9 2D 66 CA 2E, decodes to 3 samples.
C3_MockThreeSamples ==
    (pc = "parsed" /\ scenario = Plain /\ data = MockLogData)
        => Len(activity_samples) = 3

(***************************************************************************)
(* C4                                                                      *)
(***************************************************************************)
\* the stored checksum of a complete activity-bearing record was changed
ChecksumCorrupted ==
    /\ scenario.kind = "corrupt"
    /\ scenario.part = "checksum"
    /\ recs[scenario.idx].record_type \in ActivityTypes

\* the parse of the same records with no byte changed
UncorruptedParse == ParseLogBin(BuildData(recs, Plain))

\* C4: corrupting the stored checksum of one complete activity-bearing
\* record leaves the returned samples as they are for the uncorrupted
\* buffer, and the checksum-failure count reported for the parse is 1 higher
\* than the one reported for the uncorrupted buffer.
C4_ChecksumDiagnostic ==
    (pc = "ready" /\ ChecksumCorrupted) =>
        /\ activity_samples = UncorruptedParse.samples
        /\ data_quality[1].checksum_failures
            = DataQuality(UncorruptedParse.samples).checksum_failures + 1

(***************************************************************************)
(* C5                                                                      *)
(***************************************************************************)
\* C5: when the complete records are followed by a record cut short (in its
\* header, in its payload, or before its checksum byte), _parse_log_bin
\* stops at that record's offset without the except branch, having framed
\* every complete record, and returns the samples of the complete records.
C5_Truncation ==
    (Returned /\ scenario.kind = "tail") =>
        /\ ~raised
        /\ offset = Len(CleanStream(recs))
        /\ Len(history) = Len(recs)
        /\ activity_samples = ParseLogBin(CleanStream(recs)).samples

\* two complete records, then a record missing only its checksum byte
C5_Witness ==
    /\ pc = "parsed"
    /\ scenario.kind = "tail"
    /\ scenario.cut = Len(TailRecord) - 1
    /\ Len(history) = 2
    /\ activity_samples # <<>>

(***************************************************************************)
(* C6                                                                      *)
(***************************************************************************)
\* the records of rs whose type is activity-bearing
ActivityOnly(rs) == SelectSeq(rs, LAMBDA r : r.record_type \in ActivityTypes)

\* C6: a complete record whose type is neither 0 nor 26 is framed but never
\* decoded and produces no sample, whatever its payload; the offset moves
\* on by 8 + payload_size + 1; and the samples returned are those of the
\* stream with the skipped records left out.
C6_SkipOtherTypes ==
    /\ \A i \in DOMAIN history :
            LET h == history[i]
            IN  h.record.record_type \notin ActivityTypes =>
                    /\ ~h.decoded
                    /\ h.produced = <<>>
                    /\ UnknownLines(h.out) = <<>>
                    /\ h.next = h.offset + 8 + h.record.payload_size + 1
    /\ (pc = "parsed" /\ AsEncoded) =>
            /\ Len(history) = Len(recs)
            /\ activity_samples
                = ParseLogBin(CleanStream(ActivityOnly(recs))).samples

\* a skipped record with a payload, then an activity record whose samples
\* are returned
C6_Witness ==
    /\ pc = "parsed"
    /\ Len(history) = 2
    /\ history[1].record.record_type = 5
    /\ history[1].record.payload # <<>>
    /\ history[2].decoded
    /\ activity_samples = history[2].produced
    /\ activity_samples # <<>>

(***************************************************************************)
(* C7                                                                      *)
(***************************************************************************)
\* the records of rs that are activity-bearing with a payload length that is
\* no multiple of 3
UnknownFormat(rs) ==
    SelectSeq(rs, LAMBDA r : r.record_type \in ActivityTypes
                             /\ Len(r.payload) % 3 # 0)

\* C7: an activity record whose payload length is no multiple of 3 produces
\* no sample and exactly one unknown-format line, which carries the payload
\* size; parsing goes on: every record of the stream is framed, and the
\* stream's unknown-format lines are one per such record.
C7_UnknownPayload ==
    /\ \A i \in DOMAIN history :
            LET h == history[i]
                L == Len(h.record.payload)
            IN  (h.decoded /\ L % 3 # 0) =>
                    /\ h.produced = <<>>
                    /\ UnknownLines(h.out)
                        = <<Printed("unknown_payload_format", L)>>
                    /\ h.next = h.offset + 8 + L + 1
    /\ (pc = "parsed" /\ AsEncoded) =>
            /\ Len(history) = Len(recs)
            /\ Len(UnknownLines(stdout)) = Len(UnknownFormat(recs))

\* a record of unknown format, then a record whose samples are returned
C7_Witness ==
    /\ pc = "parsed"
    /\ Len(history) = 2
    /\ history[1].decoded
    /\ Len(history[1].record.payload) % 3 # 0
    /\ Len(UnknownLines(stdout)) = 1
    /\ activity_samples = history[2].produced
    /\ activity_samples # <<>>

(***************************************************************************)
(* C8                                                                      *)
(***************************************************************************)
\* bit k of the byte v
BitOf(v, k) == (v \div (2 ^ k)) % 2

\* (~(XOR of the bytes)) & 0xFF, bit by bit: bit k is set exactly when an
\* even number of the bytes have bit k set
ComplementOfXor(bytes) ==
    LET ones(k) == Cardinality({i \in DOMAIN bytes : BitOf(bytes[i], k) = 1})
        bit(k) == 1 - (ones(k) % 2)
    IN  bit(0) + 2 * bit(1) + 4 * bit(2) + 8 * bit(3) + 16 * bit(4)
            + 32 * bit(5) + 64 * bit(6) + 128 * bit(7)

\* the bytes with the byte at place pos changed by the mask
Changed(bytes, pos, mask) == [bytes EXCEPT ![pos] = Xor(@, mask)]

\* the offsets of the complete records whose bytes a scenario changed
CorruptedOffsets ==
    IF scenario.kind = "corrupt" THEN {RecordStart(recs, scenario.idx)} ELSE {}

\* C8: a framed record verifies exactly when its checksum byte is the
\* complement of the XOR of its header and payload bytes; the records the
\* encoder wrote verify; changing one byte of the header, the payload or the
\* checksum of a record that verifies makes verification fail, and a line is
\* printed for exactly the records that fail.
C8_Checksum ==
    /\ \A i \in DOMAIN history :
            LET r == history[i].record
                body == r.header \o r.payload
            IN  /\ r.verified = (r.checksum = ComplementOfXor(body))
                /\ r.verified = (history[i].offset \notin CorruptedOffsets)
                /\ ChecksumLines(history[i].out)
                    = IF r.verified THEN <<>>
                      ELSE <<Printed("checksum_failed", history[i].offset)>>
    /\ (pc = "loop" /\ history # <<>>) =>
            LET r == history[Len(history)].record
                body == r.header \o r.payload
            IN  \A mask \in {1, 128} :
                    /\ VerifyChecksum(r.header, r.payload, Xor(r.checksum, mask))
                        = (Xor(r.checksum, mask) = ComplementOfXor(body))
                    /\ r.verified =>
                        ~VerifyChecksum(r.header, r.payload,
                                        Xor(r.checksum, mask))
                    /\ r.verified =>
                        \A pos \in DOMAIN body :
                            ~VerifyChecksum(
                                SubSeq(Changed(body, pos, mask), 1, 8),
                                SubSeq(Changed(body, pos, mask), 9, Len(body)),
                                r.checksum)

\* a record whose payload byte was changed after encoding failed
\* verification, and the record after it verified
C8_Witness ==
    /\ pc = "parsed"
    /\ scenario.kind = "corrupt"
    /\ scenario.part = "payload"
    /\ Len(history) = 2
    /\ ~history[1].record.verified
    /\ history[2].record.verified
    /\ ChecksumLines(stdout) = <<Printed("checksum_failed", 0)>>

(***************************************************************************)
(* C9                                                                      *)
(***************************************************************************)
\* what the caller holds after a parse that ended cleanly after the records
\* framed so far: the samples and the data-quality report
CleanOutcome ==
    LET clean == ParseLogBin(CleanStream(SubSeq(recs, 1, Len(history))))
    IN  <<clean.samples, <<DataQuality(clean.samples)>>>>

\* C9: when an exception ends the parse, no later record is framed, the
\* samples decoded before it are returned, and what the caller holds differs
\* from what it holds after a clean end of stream at the same place.
C9_ErrorIndication ==
    (pc = "ready" /\ raised) =>
        /\ Len(history) = scenario.idx - 1
        /\ activity_samples = samples
        /\ <<activity_samples, data_quality>> # CleanOutcome

(***************************************************************************)
(* C10                                                                     *)
(***************************************************************************)
\* everything a parse reports: the lines printed and the data-quality report
Reported == <<stdout, data_quality>>

\* what the parse of the complete records alone reports
ReportedWithoutTail ==
    LET clean == ParseLogBin(CleanStream(recs))
    IN  <<clean.out, <<DataQuality(clean.samples)>>>>

\* C10: when the driver stops at a trailing record of which at least 8 bytes
\* but fewer than 8 + payload_size + 1 are there, a truncation diagnostic is
\* reported; when fewer than 8 bytes are there, nothing is.
C10_TruncationReported ==
    (pc = "ready" /\ scenario.kind = "tail") =>
        IF scenario.cut >= 8
        THEN Reported # ReportedWithoutTail
        ELSE Reported = ReportedWithoutTail

(***************************************************************************)
(* C11                                                                     *)
(***************************************************************************)
\* the value of the nbytes bytes of payload from offset a on, read as a
\* little-endian two's-complement number
TwosComplementLE(payload, a, nbytes) ==
    LET raw == IF nbytes = 1 THEN payload[a + 1]
               ELSE IF nbytes = 2 THEN payload[a + 1] + 256 * payload[a + 2]
               ELSE payload[a + 1] + 256 * payload[a + 2]
                        + 65536 * payload[a + 3]
    IN  IF payload[a + nbytes] >= 128 THEN raw - Pow256(nbytes) ELSE raw

\* the sample at offset a of a payload of samples `width` bytes wide; the
\* 3-byte format keeps each byte as it is
SampleAt(payload, a, width) ==
    IF width = 3
    THEN ActivitySample(payload[a + 1], payload[a + 2], payload[a + 3])
    ELSE ActivitySample(TwosComplementLE(payload, a, width \div 3),
                        TwosComplementLE(payload, a + (width \div 3), width \div 3),
                        TwosComplementLE(payload, a + 2 * (width \div 3),
                                         width \div 3))

\* the samples of a payload, by ascending payload offset
SamplesInOrder(payload) ==
    LET L == Len(payload)
        width == IF L % 9 = 0 THEN 9 ELSE IF L % 6 = 0 THEN 6 ELSE 3
    IN  IF L % 3 # 0 THEN <<>>
        ELSE [k \in 1..(L \div width) |-> SampleAt(payload, (k - 1) * width, width)]

RECURSIVE ConcatDecoded(_)
\* the samples of the activity-bearing records among the framed records hs,
\* record after record
ConcatDecoded(hs) ==
    IF hs = <<>> THEN <<>>
    ELSE (IF Head(hs).record.record_type \in ActivityTypes
          THEN SamplesInOrder(Head(hs).record.payload) ELSE <<>>)
            \o ConcatDecoded(Tail(hs))

\* C11: the sample list is, at every moment, the samples of the activity
\* records framed so far, record after record in stream order and within a
\* record by ascending payload offset; the records are framed at ascending
\* offsets, one after the other from offset 0, and the list returned is that
\* list.
C11_StreamOrder ==
    /\ samples = ConcatDecoded(history)
    /\ \A i \in DOMAIN history :
            history[i].offset = IF i = 1 THEN 0 ELSE history[i - 1].next
    /\ (Returned /\ AsEncoded) =>
            /\ Len(history) = Len(recs)
            /\ \A i \in DOMAIN history :
                    history[i].record.payload = recs[i].payload
    /\ Returned => activity_samples = samples

\* two activity records were decoded, each into samples of its own
C11_Witness ==
    /\ pc = "parsed"
    /\ Len(history) = 2
    /\ history[1].produced # <<>>
    /\ history[2].produced # <<>>
    /\ history[1].produced # history[2].produced
    /\ activity_samples = history[1].produced \o history[2].produced

(***************************************************************************)
(* C12                                                                     *)
(***************************************************************************)
\* the offset after the records framed so far
OffsetAfter(hs) == IF hs = <<>> THEN 0 ELSE hs[Len(hs)].next

ColonLines == {i \in DOMAIN info_lines : info_lines[i].colon}

\* C13: info holds one entry per key of the lines with a colon: the key is
\* the stripped text before the line's first colon, and its value the
\* stripped text after it (colons of the value kept), taken from the last
\* line with that key; lines without a colon add nothing.
C13_InfoEntries ==
    pc # "init" =>
        /\ DOMAIN info = {info_lines[i].key : i \in ColonLines}
        /\ \A i \in ColonLines :
                (\A j \in ColonLines : j > i => info_lines[j].key # info_lines[i].key)
                    => info[info_lines[i].key] = info_lines[i].value

\* a value with colons of its own, after a line without a colon
C13_Witness ==
    /\ pc = "info"
    /\ Len(info_lines) = 2
    /\ ~info_lines[1].colon
    /\ info_lines[2].value = <<"1", ":", "2">>
    /\ DOMAIN info = {<<"t">>}
    /\ info[<<"t">>] = <<"1", ":", "2">>

(***************************************************************************)
(* C14                                                                     *)
(***************************************************************************)
\* the little-endian unsigned 16-bit value at off+6, when its bytes exist
SizeAt(d, off) == d[off + 7] + 256 * d[off + 8]

\* the four timestamp bytes at off+2, if there, are below 2^31 (the model's
\* integers are 32 bits wide)
TimestampFits(d, off) == off + 6 <= Len(d) => d[off + 6] < 128

\* at least 8 + payload_size + 1 bytes remain from off
RecordFits(d, off) ==
    /\ Len(d) - off >= 8
    /\ Len(d) - off >= 8 + SizeAt(d, off) + 1

\* C14: at every offset of the buffer the framer yields a record if and only
\* if at least 8 + payload_size + 1 bytes remain from it; the record's
\* payload is the payload_size bytes at offset+8, its checksum the byte at
\* offset+8+payload_size, and the driver goes on at offset+8+payload_size+1.
C14_Framer ==
    /\ \A off \in {o \in 0..Len(data) : TimestampFits(data, o)} :
            LET r == ReadRecord(data, off)
            IN  /\ (r.kind = "record") = RecordFits(data, off)
                /\ r.kind = "record" =>
                        /\ r.payload_size = SizeAt(data, off)
                        /\ r.payload =
                                [i \in 1..SizeAt(data, off) |-> data[off + 8 + i]]
                        /\ r.checksum = data[off + 8 + SizeAt(data, off) + 1]
    /\ \A i \in DOMAIN history :
            /\ RecordFits(data, history[i].offset)
            /\ history[i].next =
                    history[i].offset + 8 + SizeAt(data, history[i].offset) + 1

\* the last record has no payload and ends at the end of the buffer
C14_Witness ==
    /\ pc = "loop"
    /\ Len(history) = 1
    /\ history[1].record.payload = <<>>
    /\ history[1].next = Len(data)
    /\ offset = Len(data)
    /\ Len(data) = 9

(***************************************************************************)
(* C15                                                                     *)
(***************************************************************************)
\* byte0 | (byte1<<8) | (byte2<<16), minus 0x1000000 from 0x800000 on
AxisOf3(p, a) ==
    LET raw == p[a + 1] + 256 * p[a + 2] + 65536 * p[a + 3]
    IN  IF raw >= 8388608 THEN raw - 16777216 ELSE raw

\* byte0 | (byte1<<8), minus 0x10000 from 0x8000 on
AxisOf2(p, a) ==
    LET raw == p[a + 1] + 256 * p[a + 2]
    IN  IF raw >= 32768 THEN raw - 65536 ELSE raw

\* C15: every axis value of the 9-byte and of the 6-byte decoder is the
\* little-endian two's-complement value of its own bytes, the axes taken as
\* x, y, z from consecutive byte groups of each sample.
C15_TwosComplement ==
    \A i \in DOMAIN history :
        LET p == history[i].record.payload
            out == history[i].produced
        IN  history[i].decoded =>
                /\ Len(p) % 9 = 0 =>
                        /\ Len(out) = Len(p) \div 9
                        /\ \A k \in DOMAIN out :
                                out[k] = ActivitySample(AxisOf3(p, 9 * (k - 1)),
                                                        AxisOf3(p, 9 * (k - 1) + 3),
                                                        AxisOf3(p, 9 * (k - 1) + 6))
                /\ (Len(p) % 9 # 0 /\ Len(p) % 6 = 0) =>
                        /\ Len(out) = Len(p) \div 6
                        /\ \A k \in DOMAIN out :
                                out[k] = ActivitySample(AxisOf2(p, 6 * (k - 1)),
                                                        AxisOf2(p, 6 * (k - 1) + 2),
                                                        AxisOf2(p, 6 * (k - 1) + 4))

\* a 9-byte record with the lowest 24-bit value and a 6-byte record with a
\* negative axis have been decoded
C15_Witness ==
    /\ Len(history) = 2
    /\ history[1].decoded /\ Len(history[1].record.payload) = 9
    /\ history[1].produced[1] = ActivitySample(-8388608, 8388607, 0)
    /\ history[2].decoded /\ Len(history[2].record.payload) = 6
    /\ history[2].produced[1] = ActivitySample(513, 0, -256)

(***************************************************************************)
(* C16                                                                     *)
(***************************************************************************)
\* the byte ranges of the framed records follow one another without overlap
FramedOnce ==
    \A i, j \in DOMAIN history :
        i < j => /\ history[i].offset < history[i].next
                 /\ history[i].next <= history[j].offset

\* one step of the driver: the offset is not decreased, an iteration that
\* frames a record increases it and adds that record alone, and the samples
\* grow by that record's decoding alone
ForwardStep ==
    pc = "loop" =>
        /\ offset' >= offset
        /\ history' # history =>
                /\ offset' > offset
                /\ Len(history') = Len(history) + 1
                /\ SubSeq(history', 1, Len(history)) = history
                /\ history'[Len(history')].offset = offset
                /\ Len(samples') = Len(samples)
                        + (IF history'[Len(history')].decoded
                           THEN Len(history'[Len(history')].produced) ELSE 0)
        /\ history' = history => (offset' = offset /\ samples' = samples)

\* C16: the driver is strictly forward: no step decreases the offset, every
\* iteration that frames a record increases it, the framed byte ranges never
\* overlap (each is framed once), and each payload is decoded at most once.
C16_StrictlyForward == [][ForwardStep]_vars /\ []FramedOnce

\* the offset has moved over two records, both decoded
C16_Witness ==
    /\ pc = "loop"
    /\ Len(history) = 2
    /\ history[1].decoded /\ history[2].decoded
    /\ history[1].offset = 0
    /\ history[2].offset = history[1].next
    /\ offset = history[2].next
    /\ offset > history[2].offset

(***************************************************************************)
(* C17                                                                     *)
(***************************************************************************)
\* the buffer differs from the plain one in separator or timestamp bytes only
HeaderBytesDiffer ==
    \/ scenario.kind = "header"
    \/ scenario.kind = "corrupt" /\ scenario.part \in {"separator", "timestamp"}

\* the buffer of the same records with the mock separator and timestamp
PlainData == BuildData(recs, Plain)

\* C17: a buffer that differs from another in separator and timestamp bytes
\* only is framed at the same offsets, record by record, and yields the same
\* samples; a separator other than 0x1E stops nothing.
C17_HeaderIndependent ==
    HeaderBytesDiffer =>
        /\ Len(data) = Len(PlainData)
        /\ \A i \in DOMAIN history :
                /\ history[i].offset = RecordStart(recs, i)
                /\ history[i].record.payload = recs[i].payload
                /\ history[i].produced =
                        TryBody(PlainData, RecordStart(recs, i), "none").produced
                /\ history[i].next =
                        TryBody(PlainData, RecordStart(recs, i), "none").next
        /\ Returned =>
                /\ Len(history) = Len(recs)
                /\ activity_samples = ParseLogBin(PlainData).samples
                /\ offset = ParseLogBin(PlainData).offset

\* two records with separator 0 and timestamp 0 were framed and decoded
C17_Witness ==
    /\ scenario.kind = "header"
    /\ Returned
    /\ Len(history) = 2
    /\ \A i \in 1..2 : history[i].record.separator # MockSeparator
    /\ data # PlainData
    /\ Len(activity_samples) = 2

(***************************************************************************)
(* C18                                                                     *)
(***************************************************************************)
\* the other activity type
OtherType(record_type) == IF record_type = 0 THEN 26 ELSE 0

\* a buffer of one record: r with the other activity type
Twin(r) ==
    EncodeRecord(r.separator, OtherType(r.record_type), r.timestamp, r.payload)

\* C18: a record of type 0 and a record of type 26 that carry the same
\* payload decode to the same samples: every framed activity record is
\* decoded, and to what its payload gives under the other activity type.
C18_TypeIndependent ==
    \A i \in DOMAIN history :
        LET r == history[i].record
            twin == TryBody(Twin(r), 0, "none")
        IN  r.record_type \in ActivityTypes =>
                /\ history[i].decoded
                /\ twin.kind = "advance" /\ twin.decoded
                /\ twin.record.record_type = OtherType(r.record_type)
                /\ twin.record.payload = r.payload
                /\ twin.produced = history[i].produced
                /\ history[i].produced = ParseActivityPayload(r.payload).samples

\* a type-26 record of two 9-byte samples was decoded
C18_Witness ==
    /\ Len(history) = 1
    /\ history[1].record.record_type = 26
    /\ Len(history[1].record.payload) = 18
    /\ Len(history[1].produced) = 2
    /\ TryBody(Twin(history[1].record), 0, "none").record.record_type = 0
    /\ TryBody(Twin(history[1].record), 0, "none").produced = history[1].produced

(***************************************************************************)
(* C19                                                                     *)
(***************************************************************************)
\* the buffers the termination is checked on: the streams of two or more
\* records, the empty buffer, and the buffers of one record of at most one
\* sample (an empty payload makes a record of nine bytes)
InitLive ==
    /\ \/ InitStream
       \/ \E rs \in {<<>>} \cup {<<EncodedInput(t, 9, n, 0)>> :
                                    t \in RecordTypes, n \in 0..1} :
                \E sc \in Scenarios(rs, StreamCuts) :
                    ScenarioFits(rs, sc) /\ InitFor(rs, sc)
    /\ InitInfoFor(DefaultInfoLines)
    /\ other = NoOther

\* parse() runs to its end once called: its steps are those of one thread
SpecLive == InitLive /\ [][Next]_vars /\ WF_vars(Next)

\* the driver's bounds: a framed record takes nine bytes or more, the offset
\* stays within the buffer, and a stop that no exception caused is at the
\* end of the buffer or where the framer returns None
DriverBounds ==
    /\ Len(history) <= Len(data) \div 9
    /\ offset <= Len(data)
    /\ (Returned /\ ~raised) =>
            \/ offset = Len(data)
            \/ ReadRecord(data, offset).kind = "none"

\* C19: on every buffer the driver stops, after at most floor(len(data)/9)
\* framed records, with the offset at len(data) or at a place where the
\* framer returns None; the offset never exceeds len(data).
C19_Terminates == []DriverBounds /\ <>Returned

\* the driver stopped inside the buffer, at a record cut short, after two
\* framed records
C19_Witness ==
    /\ pc = "parsed"
    /\ ~raised
    /\ Len(history) = 2
    /\ offset < Len(data)
    /\ offset = history[2].next
    /\ ReadRecord(data, offset).kind = "none"

(***************************************************************************)
(* C20                                                                     *)
(***************************************************************************)
\* the index and unpack operations of _read_record at off stay in the buffer
FramerReadsWithin(d, off) ==
    off + 8 < Len(d) =>
        /\ \A i \in off..(off + 7) : PyIndexOK(d, i)
        /\ off + 8 + SizeAt(d, off) + 1 <= Len(d) =>
                \A i \in off..(off + 8 + SizeAt(d, off)) : PyIndexOK(d, i)

\* the sample width the decoder of payload p reads at, 0 for none
WidthOf(p) ==
    IF Len(p) % 9 = 0 THEN 9
    ELSE IF Len(p) % 6 = 0 THEN 6
    ELSE IF Len(p) % 3 = 0 THEN 3 ELSE 0

\* every sample the decoder of p unpacks lies within p
DecoderReadsWithin(p) ==
    WidthOf(p) # 0 =>
        \A i \in {j \in 0..(Len(p) - 1) : j % WidthOf(p) = 0} :
            /\ i + WidthOf(p) <= Len(p)
            /\ Len(PySlice(p, i, i + WidthOf(p))) = WidthOf(p)

\* C20: on every buffer no read of the framer or of a decoder leaves the
\* buffer or the payload, so no iteration raises: the except branch is taken
\* only on an exception of the runtime, and every other stop of the driver
\* is the end of the buffer or a None of the framer.
C20_NoException ==
    /\ \A off \in {o \in 0..Len(data) : TimestampFits(data, o)} :
            /\ FramerReadsWithin(data, off)
            /\ ReadRecord(data, off).kind # "raise"
            /\ ReadRecord(data, off).kind = "record" =>
                    /\ DecoderReadsWithin(ReadRecord(data, off).payload)
                    /\ TryBody(data, off, "none").kind = "advance"
    /\ (pc = "loop" /\ offset < Len(data)) =>
            TryBody(data, offset, "none").kind \in {"break", "advance"}
    /\ raised => scenario.kind = "fault"
    /\ (Returned /\ scenario.kind # "fault") =>
            /\ ~raised
            /\ \A i \in DOMAIN stdout : stdout[i] # ErrorLine(offset)
            /\ \/ ~(offset < Len(data))
               \/ ReadRecord(data, offset).kind = "none"

\* the driver stopped at a record cut after its header, having decoded the
\* records before it, and nothing was raised
C20_Witness ==
    /\ pc = "parsed"
    /\ scenario.kind = "tail"
    /\ ~raised
    /\ Len(history) = 2
    /\ history[1].decoded /\ history[2].decoded
    /\ Len(activity_samples) = 2
    /\ offset + 8 = Len(data)
    /\ ReadRecord(data, offset).kind = "none"

(***************************************************************************)
(* C22                                                                     *)
(***************************************************************************)
\* every axis of the sample s lies in lo..hi
AxesWithin(s, lo, hi) ==
    /\ lo <= s.x /\ s.x <= hi
    /\ lo <= s.y /\ s.y <= hi
    /\ lo <= s.z /\ s.z <= hi

MaxCalls == 3

\* the info.txt of the archives a reader is opened on: without the two
\* numeric keys, with a numeral, with a text that is no numeral
ReaderInfoLines ==
    { <<>>,
      <<InfoLine(<<"S", "a", "m", "p", "l", "e", " ", "R", "a", "t", "e", ":", " ", "3", "0">>,
               TRUE, <<"S", "a", "m", "p", "l", "e", " ", "R", "a", "t", "e">>, <<"3", "0">>)>>,
      <<InfoLine(<<"S", "a", "m", "p", "l", "e", " ", "R", "a", "t", "e", ":", " ", "a", "b", "c">>,
               TRUE, <<"S", "a", "m", "p", "l", "e", " ", "R", "a", "t", "e">>, <<"a", "b", "c">>)>>,
      <<InfoLine(<<"S", "a", "m", "p", "l", "e", " ", "R", "a", "t", "e", ":">>,
               TRUE, <<"S", "a", "m", "p", "l", "e", " ", "R", "a", "t", "e">>, <<>>)>>,
      <<InfoLine(<<"A", "c", "c", "e", "l", "e", "r", "a", "t", "i", "o", "n", " ", "S", "c", "a", "l", "e", ":", " ", "2", "5", "6", ".", "0">>,
               TRUE, <<"A", "c", "c", "e", "l", "e", "r", "a", "t", "i", "o", "n", " ", "S", "c", "a", "l", "e">>, <<"2", "5", "6", ".", "0">>)>>,
      <<InfoLine(<<"A", "c", "c", "e", "l", "e", "r", "a", "t", "i", "o", "n", " ", "S", "c", "a", "l", "e", ":", " ", "x">>,
               TRUE, <<"A", "c", "c", "e", "l", "e", "r", "a", "t", "i", "o", "n", " ", "S", "c", "a", "l", "e">>, <<"x">>)>> }

\* the archive cannot be opened: zipfile.ZipFile raises in parse()
Unreadable == Scenario("unreadable", 0, "none", 0, "none")

\* the log.bin of the archives a reader is opened on
ReaderRecords ==
    { <<>>, <<EncodedInput(0, 9, 1, 0)>>,
      <<EncodedInput(26, 6, 1, 1), RawInput(5, 1)>> }

InitReader ==
    /\ \E rs \in ReaderRecords : \E sc \in {Plain, Unreadable} : InitFor(rs, sc)
    /\ \E lines \in ReaderInfoLines : InitInfoFor(lines)
    /\ other = NoOther

Readable == scenario.kind # "unreadable"

\* a call leaves the parser's own variables of this model as they are
ReaderOnly ==
    UNCHANGED <<inputs, pc, info, offset, samples, stdout, history, raised,
                activity_samples, data_quality, other>>

\* the reader after a call `name` that left the fields r and gave `result`
AfterCall(r, name, result) ==
    [r EXCEPT !.calls = @ + 1, !.last = [call |-> name, result |-> result]]

\* what parse() returns on the archive, when it can be opened
Parsed == Parse(info_content, data)

\* one of the three properties, read by the caller
ReadProperty(name, field) ==
    /\ reader.calls < MaxCalls
    /\ \E parsed \in {Parsed} :
        \E p \in {Property(reader, field, parsed, Readable)} :
            reader' = AfterCall(p.reader, name, ResultOf(p.raised, p.value))
    /\ ReaderOnly

\* "with GT3XReader(path) as reader": __enter__ calls _parse_file
Enter ==
    /\ reader.calls < MaxCalls
    /\ \E parsed \in {Parsed} :
        \E p \in {ParseFileOn(reader, parsed, Readable)} :
            reader' = AfterCall(p.reader, "__enter__", ResultOf(p.raised, Some(0)))
    /\ ReaderOnly

GetDeviceInfo == ReadProperty("device_info", "_device_info")

GetRecordingInfo == ReadProperty("recording_info", "_recording_info")

GetDataQuality == ReadProperty("data_quality", "_data_quality")

\* an attribute of the property `field` is read on the reader r: the
\* property raises, or returns None and the attribute read raises, or the
\* read goes through
ReadAttribute(r, field, parsed, readable) ==
    LET p == Property(r, field, parsed, readable)
    IN  [reader |-> p.reader,
         result |-> IF p.raised THEN "raise"
                    ELSE IF p.value = None THEN "attribute_error" ELSE "value"]

\* the property metadata: it reads attributes of self.device_info, then of
\* self.recording_info, then of self.data_quality
GetMetadata ==
    /\ reader.calls < MaxCalls
    /\ \E parsed \in {Parsed} :
        \E d \in {ReadAttribute(reader, "_device_info", parsed, Readable)} :
         \E r \in {ReadAttribute(d.reader, "_recording_info", parsed, Readable)} :
          \E q \in {ReadAttribute(r.reader, "_data_quality", parsed, Readable)} :
            reader' =
                IF d.result # "value" THEN AfterCall(d.reader, "metadata", d.result)
                ELSE IF r.result # "value" THEN AfterCall(r.reader, "metadata", r.result)
                ELSE AfterCall(q.reader, "metadata", q.result)
    /\ ReaderOnly

\* to_dict: "if self._data is None: self._parse_file()", an empty result
\* for no samples, else attributes of self.recording_info and of
\* self.device_info are read
ToDict ==
    /\ reader.calls < MaxCalls
    /\ \E parsed \in {Parsed} :
        \E p \in {ParseFileOn(reader, parsed, Readable)} :
         \E r \in {ReadAttribute(p.reader, "_recording_info", parsed, Readable)} :
          \E d \in {ReadAttribute(r.reader, "_device_info", parsed, Readable)} :
            reader' =
                IF p.raised THEN AfterCall(p.reader, "to_dict", "raise")
                ELSE IF p.reader._data[1].activity_samples = <<>>
                THEN AfterCall(p.reader, "to_dict", "value")
                ELSE IF r.result # "value" THEN AfterCall(r.reader, "to_dict", r.result)
                ELSE AfterCall(d.reader, "to_dict", d.result)
    /\ ReaderOnly

NextReader ==
    \/ Enter
    \/ GetDeviceInfo
    \/ GetRecordingInfo
    \/ GetDataQuality
    \/ GetMetadata
    \/ ToDict

SpecReader == InitReader /\ [][NextReader]_vars

(***************************************************************************)
(* C21                                                                     *)
(***************************************************************************)
\* whenever _data is set the three metadata objects are set too
MetadataSet ==
    reader._data # None =>
        /\ reader._device_info # None
        /\ reader._recording_info # None
        /\ reader._data_quality # None

\* C21: over every sequence of calls on a reader, failing ones included,
\* parse() is invoked at most once, the three metadata objects are set
\* whenever _data is, and device_info, recording_info and data_quality never
\* return None.
C21_CachedState ==
    /\ reader.parse_calls <= 1
    /\ MetadataSet
    /\ reader.last.call \in {"device_info", "recording_info", "data_quality"}
            => reader.last.result # "none"

====
